---- MODULE Spec2Model ----
(***************************************************************************)
(* Taqyon desktop shell template: start-up (option parsing, logging,       *)
(* frontend URL resolution, window, event loop), the navigation policy of  *)
(* MyWebPage and the BackendObject bridge.                                 *)
(***************************************************************************)
EXTENDS Integers, Sequences, FiniteSets, TLC

VARIABLES
    variant,      \* which entry point runs: "app" (app/main.cpp) or "legacy" (main.cpp)
    fs,           \* the filesystem: [dirs, files], the sets of existing paths
    logOpens,     \* whether QFile::open of the log file succeeds
    argv,         \* the parsed command line: [dev, fp, log], each NotSet or a string
    pc,           \* position of main
    logFile,      \* the QFile* logFile: "null", "open" or "released"
    frontendUrl,  \* QUrl frontendUrl
    dirProbes,    \* paths on which QDir::exists was called, in call order
    fileProbes,   \* paths on which QFileInfo::exists was called, in call order
    steps,        \* start-up steps performed so far, in order
    windowShown,  \* mainWindow.show() was called
    loopEntered,  \* app.exec() was called
    exitCode,     \* NoExit, or the value the process exited with
    \* BackendObject
    m_message,        \* QString m_message
    m_count,          \* int m_count
    messageChanged,   \* payloads of the messageChanged signals emitted, in order
    countChanged,     \* payloads of the countChanged signals emitted, in order
    sendToFrontend,   \* payloads of the sendToFrontend signals emitted, in order
    trapped,          \* the process was aborted on a signed overflow
    lastCall,         \* the last call made on the bridge and the state it found
    history,          \* bookkeeping: calls made, value changes seen, texts sent
    \* MyWebPage
    opened,           \* URLs handed to QDesktopServices::openUrl, in order
    delegated,        \* requests passed to QWebEnginePage::acceptNavigationRequest
    lastNav,          \* the last navigation request and the value returned for it
    \* MyWebView
    menu,             \* the entries of the QMenu built by the last context-menu event
    menuShown,        \* number of menu.exec calls
    menuDefault,      \* number of QWebEngineView::contextMenuEvent calls
    lastMenu,         \* the last context-menu event: what the view found
    \* MainWindow
    window,           \* the main window: [visible, state, raised, active]
    quitRequested,    \* QApplication::quit() was called
    trayEvents,       \* number of tray events handled
    lastEvent         \* the last event on the tray or the window, and what it found

bootVars == <<variant, fs, logOpens, argv, pc, logFile, frontendUrl, dirProbes,
              fileProbes, steps, windowShown, loopEntered, exitCode>>

bridgeVars == <<m_message, m_count, messageChanged, countChanged, sendToFrontend,
                trapped, lastCall, history>>

navVars == <<opened, delegated, lastNav>>

menuVars == <<menu, menuShown, menuDefault, lastMenu>>

trayVars == <<window, quitRequested, trayEvents, lastEvent>>

----------------------------------------------------------------------------
(* Bounds and inputs *)

\* the event loop returns a value in 0..MaxLoopResult
MaxLoopResult == 1

\* number of calls made on the bridge object
MaxCalls == 4

\* number of navigation requests
MaxNavs == 2

\* number of context-menu events
MaxMenuEvents == 1

\* number of tray events
MaxTrayEvents == 3

\* a command-line option: not given, or given with a value
NotSet == [set |-> FALSE, value |-> ""]
Given(v) == [set |-> TRUE, value |-> v]
NoExit == -1

appDir == "/opt/taqyon/bin"
cwd == "/home/u/work"
userPath == "/x"

\* values of --dev-server: an empty string, two well-formed URLs, a malformed one
DevValues == {"", "http://localhost:3000", "http://[::1"}
MalformedUrls == {"http://[::1"}
FpValues == {userPath}
LogValues == {"/tmp/app.log"}

----------------------------------------------------------------------------
(* QUrl *)

\* QUrl(): the empty, invalid URL
QUrlEmpty == [valid |-> FALSE, text |-> "", local |-> FALSE]

\* QUrl(const QString &): an empty or malformed string gives an invalid URL
QUrlFromString(s) ==
    IF s = "" \/ s \in MalformedUrls
    THEN QUrlEmpty
    ELSE [valid |-> TRUE, text |-> s, local |-> FALSE]

\* QUrl::fromLocalFile(path)
QUrlFromLocalFile(p) ==
    IF p = "" THEN QUrlEmpty
    ELSE [valid |-> TRUE, text |-> "file://" \o p, local |-> TRUE]

----------------------------------------------------------------------------
(* Filesystem *)

indexOf(dir) == dir \o "/index.html"

\* the first directory tried, then the list possiblePaths
firstCandidate == appDir \o "/../frontend/dist"
possiblePaths ==
    << appDir \o "/frontend/dist",
       cwd \o "/frontend/dist",
       cwd \o "/../frontend/dist",
       cwd \o "/../../frontend/dist",
       cwd \o "/../../../frontend/dist" >>

Candidates == <<firstCandidate>> \o possiblePaths

DirPaths == {Candidates[i] : i \in 1..Len(Candidates)} \cup {userPath}

\* every filesystem over the paths of interest: index.html lies in an existing directory
FsStates ==
    UNION { { [dirs |-> d, files |-> {indexOf(p) : p \in f}] : f \in SUBSET d } :
            d \in SUBSET DirPaths }

\* QDir(path).exists()
QDirExists(f, path) == path \in f.dirs

\* QFileInfo(path).exists()
QFileInfoExists(f, path) == path \in f.files \/ path \in f.dirs

----------------------------------------------------------------------------
(* Frontend resolution *)

\* probePossiblePaths without the break: the loop runs on and the last match wins
RECURSIVE probePossiblePaths_noBreak(_, _, _)
probePossiblePaths_noBreak(f, i, probes) ==
    IF i > Len(possiblePaths)
    THEN [found |-> FALSE, path |-> "", probes |-> probes]
    ELSE LET rest == probePossiblePaths_noBreak(f, i + 1, Append(probes, possiblePaths[i]))
         IN  IF ~rest.found /\ QDirExists(f, possiblePaths[i])
             THEN [found |-> TRUE, path |-> possiblePaths[i], probes |-> rest.probes]
             ELSE rest

\* the loop over possiblePaths from index i on: the first existing directory wins
\* and ends the loop; probes collects the directories tested
RECURSIVE probePossiblePaths(_, _, _)
probePossiblePaths(f, i, probes) ==
    IF i > Len(possiblePaths)
    THEN [found |-> FALSE, path |-> "", probes |-> probes]
    ELSE IF QDirExists(f, possiblePaths[i])
         THEN [found |-> TRUE, path |-> possiblePaths[i],
               probes |-> Append(probes, possiblePaths[i])]
         ELSE probePossiblePaths(f, i + 1, Append(probes, possiblePaths[i]))

\* locateFrontendDir falling back to the probe when the given path does not exist
locateFrontendDir_fallback(a, f) ==
    IF a.fp.set /\ QDirExists(f, a.fp.value)
    THEN [found |-> TRUE, path |-> a.fp.value, probes |-> <<a.fp.value>>]
    ELSE IF QDirExists(f, firstCandidate)
         THEN [found |-> TRUE, path |-> firstCandidate, probes |-> <<firstCandidate>>]
         ELSE probePossiblePaths(f, 1, <<firstCandidate>>)

\* the directory the frontend is looked for in when --dev-server is not set
locateFrontendDir(a, f) ==
    IF a.fp.set
    THEN [found |-> TRUE, path |-> a.fp.value, probes |-> <<>>]
    ELSE IF QDirExists(f, firstCandidate)
         THEN [found |-> TRUE, path |-> firstCandidate, probes |-> <<firstCandidate>>]
         ELSE probePossiblePaths(f, 1, <<firstCandidate>>)

\* resolveFrontendUrl without --dev-server: the directory is located and its
\* index.html required
resolveLocal(a, f) ==
    LET loc == locateFrontendDir(a, f)
        indexPath == indexOf(loc.path)
    IN  IF ~loc.found
        THEN [url |-> QUrlEmpty, dirProbes |-> loc.probes, fileProbes |-> <<>>]
        ELSE IF ~QFileInfoExists(f, indexPath)
        THEN [url |-> QUrlEmpty, dirProbes |-> loc.probes, fileProbes |-> <<indexPath>>]
        ELSE [url |-> QUrlFromLocalFile(indexPath), dirProbes |-> loc.probes,
              fileProbes |-> <<indexPath>>]

\* resolveFrontendUrl with --frontend-path tested before --dev-server
resolveFrontendUrl_pathFirst(a, f) ==
    IF a.dev.set /\ ~a.fp.set
    THEN [url |-> QUrlFromString(a.dev.value), dirProbes |-> <<>>, fileProbes |-> <<>>]
    ELSE resolveLocal(a, f)

\* resolveFrontendUrl(parser): the URL returned and the filesystem queries made
resolveFrontendUrl(a, f) ==
    IF a.dev.set
    THEN [url |-> QUrlFromString(a.dev.value), dirProbes |-> <<>>, fileProbes |-> <<>>]
    ELSE resolveLocal(a, f)

\* the inline resolution of the legacy main(): ret1 is the early `return 1`
legacyResolve(a, f) ==
    IF a.dev.set
    THEN [ret1 |-> FALSE, url |-> QUrlFromString(a.dev.value),
          dirProbes |-> <<>>, fileProbes |-> <<>>]
    ELSE LET loc == locateFrontendDir(a, f)
             indexPath == indexOf(loc.path)
         IN  IF ~loc.found
             THEN [ret1 |-> TRUE, url |-> QUrlEmpty,
                   dirProbes |-> loc.probes, fileProbes |-> <<>>]
             ELSE IF ~QFileInfoExists(f, indexPath)
             THEN [ret1 |-> TRUE, url |-> QUrlEmpty,
                   dirProbes |-> loc.probes, fileProbes |-> <<indexPath>>]
             ELSE [ret1 |-> FALSE, url |-> QUrlFromLocalFile(indexPath),
                   dirProbes |-> loc.probes, fileProbes |-> <<indexPath>>]

----------------------------------------------------------------------------
(* main() *)

\* the start-up with the frontend URL resolved before the bridge is constructed
stepOrder_resolveFirst ==
    <<"parse", "logging", "webview", "resolve", "bridge", "window", "show", "exec",
      "cleanup">>

\* the order of the start-up steps of the two entry points
stepOrder ==
    IF variant = "app"
    THEN <<"parse", "logging", "webview", "bridge", "resolve", "window", "show",
           "exec", "cleanup">>
    ELSE <<"parse", "logging", "window", "webview", "bridge", "resolve", "show",
           "exec", "cleanup">>

RECURSIVE positionOf(_, _, _)
positionOf(seq, x, i) == IF seq[i] = x THEN i ELSE positionOf(seq, x, i + 1)

\* the step that follows step s
after(s) ==
    LET i == positionOf(stepOrder, s, 1)
    IN  IF i = Len(stepOrder) THEN "done" ELSE stepOrder[i + 1]

advance(s) ==
    /\ pc = s
    /\ pc' = after(s)
    /\ steps' = Append(steps, s)

BootInit ==
    /\ variant \in {"app", "legacy"}
    /\ fs \in FsStates
    /\ logOpens \in BOOLEAN
    /\ argv = [dev |-> NotSet, fp |-> NotSet, log |-> NotSet]
    /\ pc = "parse"
    /\ logFile = "null"
    /\ frontendUrl = QUrlEmpty
    /\ dirProbes = <<>>
    /\ fileProbes = <<>>
    /\ steps = <<>>
    /\ windowShown = FALSE
    /\ loopEntered = FALSE
    /\ exitCode = NoExit

\* parser.process() on a well-formed command line, then the option values are read
ParseOptions ==
    /\ \E dev \in {NotSet} \cup {Given(v) : v \in DevValues},
          fp \in {NotSet} \cup {Given(v) : v \in FpValues},
          log \in {NotSet} \cup {Given(v) : v \in LogValues} :
            argv' = [dev |-> dev, fp |-> fp, log |-> log]
    /\ advance("parse")
    /\ UNCHANGED <<bridgeVars, navVars, menuVars, trayVars, variant, fs, logOpens,
                   logFile, frontendUrl, dirProbes, fileProbes, windowShown,
                   loopEntered, exitCode>>

\* parser.process() ends the process itself: --help and --version with 0,
\* a malformed command line with 1
ParseExits ==
    /\ pc = "parse"
    /\ \E code \in {0, 1} : exitCode' = code
    /\ pc' = "exited"
    /\ steps' = Append(steps, "parse")
    /\ UNCHANGED <<bridgeVars, navVars, menuVars, trayVars, variant, fs, logOpens, argv,
                   logFile, frontendUrl, dirProbes, fileProbes, windowShown,
                   loopEntered>>

\* setupLogging: the log file is opened in append mode; a failed open leaves nullptr
setupLogging(a, opens) ==
    IF a.log.set /\ a.log.value # "" /\ opens THEN "open" ELSE "null"

SetupLogging ==
    /\ advance("logging")
    /\ logFile' = setupLogging(argv, logOpens)
    /\ UNCHANGED <<bridgeVars, navVars, menuVars, trayVars, variant, fs, logOpens, argv,
                   frontendUrl, dirProbes, fileProbes, windowShown, loopEntered,
                   exitCode>>

\* new MyWebView, new MyWebPage, setPage, the web engine settings
CreateWebView ==
    /\ advance("webview")
    /\ UNCHANGED <<bridgeVars, navVars, menuVars, trayVars, variant, fs, logOpens, argv,
                   logFile, frontendUrl, dirProbes, fileProbes, windowShown,
                   loopEntered, exitCode>>

\* QWebChannel channel; BackendObject backend; registerObject; setWebChannel
CreateBridge ==
    /\ advance("bridge")
    /\ UNCHANGED <<bridgeVars, navVars, menuVars, trayVars, variant, fs, logOpens, argv,
                   logFile, frontendUrl, dirProbes, fileProbes, windowShown,
                   loopEntered, exitCode>>

\* app/main.cpp: frontendUrl = resolveFrontendUrl(parser); an invalid URL returns 1
ResolveApp ==
    /\ variant = "app"
    /\ pc = "resolve"
    /\ LET r == resolveFrontendUrl(argv, fs)
       IN  /\ frontendUrl' = r.url
           /\ dirProbes' = r.dirProbes
           /\ fileProbes' = r.fileProbes
           /\ IF ~r.url.valid
              THEN pc' = "done" /\ exitCode' = 1
              ELSE pc' = after("resolve") /\ exitCode' = exitCode
    /\ steps' = Append(steps, "resolve")
    /\ UNCHANGED <<bridgeVars, navVars, menuVars, trayVars, variant, fs, logOpens, argv,
                   logFile, windowShown, loopEntered>>

\* main.cpp: the inline resolution, with its two `return 1`
ResolveLegacy ==
    /\ variant = "legacy"
    /\ pc = "resolve"
    /\ LET r == legacyResolve(argv, fs)
       IN  /\ frontendUrl' = r.url
           /\ dirProbes' = r.dirProbes
           /\ fileProbes' = r.fileProbes
           /\ IF r.ret1
              THEN pc' = "done" /\ exitCode' = 1
              ELSE pc' = after("resolve") /\ exitCode' = exitCode
    /\ steps' = Append(steps, "resolve")
    /\ UNCHANGED <<bridgeVars, navVars, menuVars, trayVars, variant, fs, logOpens, argv,
                   logFile, windowShown, loopEntered>>

\* the main window object is constructed
CreateMainWindow ==
    /\ advance("window")
    /\ UNCHANGED <<bridgeVars, navVars, menuVars, trayVars, variant, fs, logOpens, argv,
                   logFile, frontendUrl, dirProbes, fileProbes, windowShown,
                   loopEntered, exitCode>>

\* webView->setUrl(frontendUrl); mainWindow.show()
ShowWindow ==
    /\ advance("show")
    /\ windowShown' = TRUE
    /\ UNCHANGED <<bridgeVars, navVars, menuVars, trayVars, variant, fs, logOpens, argv,
                   logFile, frontendUrl, dirProbes, fileProbes, loopEntered, exitCode>>

\* int result = app.exec(): the loop runs and ends with some result
ExecEventLoop ==
    /\ advance("exec")
    /\ loopEntered' = TRUE
    /\ \E result \in 0..MaxLoopResult : exitCode' = result
    /\ UNCHANGED <<bridgeVars, navVars, menuVars, trayVars, variant, fs, logOpens, argv,
                   logFile, frontendUrl, dirProbes, fileProbes, windowShown>>

\* if (logFile) { logFile->close(); delete logFile; }
releaseLog(lf) == IF lf = "open" THEN "released" ELSE lf

\* the clean-up after the event loop and `return result`
CleanupAndReturn ==
    /\ advance("cleanup")
    /\ logFile' = releaseLog(logFile)
    /\ UNCHANGED <<bridgeVars, navVars, menuVars, trayVars, variant, fs, logOpens, argv,
                   frontendUrl, dirProbes, fileProbes, windowShown, loopEntered,
                   exitCode>>

BootStep ==
    \/ ParseOptions
    \/ ParseExits
    \/ SetupLogging
    \/ CreateWebView
    \/ CreateBridge
    \/ ResolveApp
    \/ ResolveLegacy
    \/ CreateMainWindow
    \/ ShowWindow
    \/ ExecEventLoop
    \/ CleanupAndReturn

\* a start-up in which the event loop is running
BootRunning ==
    /\ variant = "app"
    /\ fs = [dirs |-> {firstCandidate}, files |-> {indexOf(firstCandidate)}]
    /\ logOpens = TRUE
    /\ argv = [dev |-> NotSet, fp |-> NotSet, log |-> NotSet]
    /\ pc = "exec"
    /\ logFile = "null"
    /\ frontendUrl = QUrlFromLocalFile(indexOf(firstCandidate))
    /\ dirProbes = <<firstCandidate>>
    /\ fileProbes = <<indexOf(firstCandidate)>>
    /\ steps = <<"parse", "logging", "webview", "bridge", "resolve", "window", "show">>
    /\ windowShown = TRUE
    /\ loopEntered = FALSE
    /\ exitCode = NoExit

----------------------------------------------------------------------------
(* BackendObject *)

INT_MAX == 2147483647
INT_MIN == -2147483647 - 1

MessageInputs == {"Hello from C++ backend!", "hi", ""}
CountInputs == {-1, 0, 5, 6, INT_MAX}
TextInputs == {"", "ping", "%1"}

NoCall == [op |-> "none"]

\* BackendObject::BackendObject
BridgeInit ==
    /\ m_message = "Hello from C++ backend!"
    /\ m_count = 0
    /\ messageChanged = <<>>
    /\ countChanged = <<>>
    /\ sendToFrontend = <<>>
    /\ trapped = FALSE
    /\ lastCall = NoCall
    /\ history = [calls |-> 0, countChanges |-> 0, messageChanges |-> 0, sent |-> <<>>]

\* bookkeeping of one call: what the call changed is read off the fields themselves
record(text) ==
    history' = [calls |-> history.calls + 1,
                countChanges |-> history.countChanges
                                   + (IF m_count' # m_count THEN 1 ELSE 0),
                messageChanges |-> history.messageChanges
                                   + (IF m_message' # m_message THEN 1 ELSE 0),
                sent |-> IF text.set THEN Append(history.sent, text.value)
                         ELSE history.sent]

\* a call and the state it finds: the fields and the numbers of signals emitted
called(op, a) ==
    [op |-> op, arg |-> a, message |-> m_message, count |-> m_count,
     nMessage |-> Len(messageChanged), nCount |-> Len(countChanged),
     nSent |-> Len(sendToFrontend)]

callable == ~trapped /\ history.calls < MaxCalls

\* BackendObject::setMessage: the new field value and signal log
setMessage(cur, sig, msg) ==
    IF cur # msg
    THEN [value |-> msg, sig |-> Append(sig, msg)]
    ELSE [value |-> cur, sig |-> sig]

\* setCount without the comparison: every call writes and emits
setCount_always(cur, sig, count) == [value |-> count, sig |-> Append(sig, count)]

\* BackendObject::setCount: the new field value and signal log
setCount(cur, sig, count) ==
    IF cur # count
    THEN [value |-> count, sig |-> Append(sig, count)]
    ELSE [value |-> cur, sig |-> sig]

\* m_count + 1 on int: in range the sum; at INT_MAX undefined behaviour, which a
\* build turns into a wrap to INT_MIN or into a trap
plusOne(n) ==
    IF n < INT_MAX
    THEN {[trap |-> FALSE, value |-> n + 1]}
    ELSE {[trap |-> FALSE, value |-> INT_MIN], [trap |-> TRUE, value |-> n]}

\* QString(tpl).arg(a): the place marker %1 is replaced by a
arg(tpl, a) == [i \in DOMAIN tpl |-> IF tpl[i] = "%1" THEN a ELSE tpl[i]]

RECURSIVE join(_)
join(parts) == IF parts = <<>> THEN "" ELSE Head(parts) \o join(Tail(parts))

\* the text sendToBackend emits
echoText(text) == join(arg(<<"Backend received: ", "%1">>, text))

\* sendToBackend emitting the text without the prefix
sendToBackend_bare(sig, text) == Append(sig, text)

\* BackendObject::sendToBackend: the signal log after the call
sendToBackend(sig, text) == Append(sig, echoText(text))

SetMessage(msg) ==
    /\ callable
    /\ LET r == setMessage(m_message, messageChanged, msg)
       IN  m_message' = r.value /\ messageChanged' = r.sig
    /\ lastCall' = called("setMessage", msg)
    /\ UNCHANGED <<bootVars, navVars, menuVars, trayVars, m_count, countChanged,
                   sendToFrontend, trapped>>
    /\ record(NotSet)

SetCount(n) ==
    /\ callable
    /\ LET r == setCount(m_count, countChanged, n)
       IN  m_count' = r.value /\ countChanged' = r.sig
    /\ lastCall' = called("setCount", n)
    /\ UNCHANGED <<bootVars, navVars, menuVars, trayVars, m_message, messageChanged,
                   sendToFrontend, trapped>>
    /\ record(NotSet)

\* BackendObject::incrementCount: setCount(m_count + 1)
IncrementCount ==
    /\ callable
    /\ \E sum \in plusOne(m_count) :
          IF sum.trap
          THEN /\ trapped' = TRUE
               /\ UNCHANGED <<m_count, countChanged>>
          ELSE /\ LET r == setCount(m_count, countChanged, sum.value)
                  IN  m_count' = r.value /\ countChanged' = r.sig
               /\ UNCHANGED trapped
    /\ lastCall' = called("incrementCount", 0)
    /\ UNCHANGED <<bootVars, navVars, menuVars, trayVars, m_message, messageChanged,
                   sendToFrontend>>
    /\ record(NotSet)

\* a call of sendToBackend(text)
SendToBackend(text) ==
    /\ callable
    /\ sendToFrontend' = sendToBackend(sendToFrontend, text)
    /\ lastCall' = called("sendToBackend", text)
    /\ UNCHANGED <<bootVars, navVars, menuVars, trayVars, m_message, m_count,
                   messageChanged, countChanged, trapped>>
    /\ record(Given(text))

BridgeStep ==
    \/ \E msg \in MessageInputs : SetMessage(msg)
    \/ \E n \in CountInputs : SetCount(n)
    \/ IncrementCount
    \/ \E text \in TextInputs : SendToBackend(text)

----------------------------------------------------------------------------
(* MyWebPage *)

\* QWebEnginePage::NavigationType
NavigationTypes ==
    {"LinkClicked", "Typed", "FormSubmitted", "BackForward", "Reload", "Other",
     "Redirect"}

\* requested URLs, as QUrl holds them: scheme() is the lower-cased scheme
NavUrls ==
    { [scheme |-> "http", text |-> "http://example.com"],
      [scheme |-> "https", text |-> "https://example.com"],
      [scheme |-> "https", text |-> "HTTPS://EXAMPLE.COM/a"],
      [scheme |-> "file", text |-> "file:///x/index.html"],
      [scheme |-> "ftp", text |-> "ftp://example.com/f"],
      [scheme |-> "", text |-> "page.html"] }

\* QWebEnginePage::acceptNavigationRequest: the base class accepts every request
baseAcceptNavigationRequest(url, type, isMainFrame) == TRUE

\* the test without the isMainFrame condition
opensExternally_anyFrame(url, type, isMainFrame) ==
    /\ type = "LinkClicked"
    /\ url.scheme = "http" \/ url.scheme = "https"

\* the test of MyWebPage::acceptNavigationRequest for opening the URL externally
opensExternally(url, type, isMainFrame) ==
    /\ isMainFrame
    /\ type = "LinkClicked"
    /\ url.scheme = "http" \/ url.scheme = "https"

\* a request, the numbers of URLs opened and requests delegated before it, and
\* the value returned for it
request(url, type, isMainFrame, result) ==
    [op |-> "nav", url |-> url, type |-> type, isMainFrame |-> isMainFrame,
     nOpened |-> Len(opened), nDelegated |-> Len(delegated), result |-> result]

\* MyWebPage::acceptNavigationRequest
AcceptNavigationRequest(url, type, isMainFrame) ==
    /\ Len(opened) + Len(delegated) < MaxNavs
    /\ IF opensExternally(url, type, isMainFrame)
       THEN /\ opened' = Append(opened, url)
            /\ delegated' = delegated
            /\ lastNav' = request(url, type, isMainFrame, FALSE)
       ELSE /\ opened' = opened
            /\ delegated' = Append(delegated, [url |-> url, type |-> type,
                                               isMainFrame |-> isMainFrame])
            /\ lastNav' = request(url, type, isMainFrame,
                                  baseAcceptNavigationRequest(url, type, isMainFrame))
    /\ UNCHANGED <<bootVars, bridgeVars, menuVars, trayVars>>

NavStep ==
    \E url \in NavUrls, type \in NavigationTypes, isMainFrame \in BOOLEAN :
        AcceptNavigationRequest(url, type, isMainFrame)

----------------------------------------------------------------------------
(* MyWebView *)

\* what currentPage->action(...) gives: no action, a disabled one, an enabled one
ActionStates == {"null", "disabled", "enabled"}

\* request->linkUrl() and request->selectedText(): empty or not
LinkUrls == {"", "http://a"}
SelectedTexts == {"", "some text"}

\* what a context-menu event finds: with a request and a page, every combination
\* of the actions' states, link and selection
MenuInputsComplete ==
    [ request : {TRUE}, page : {TRUE},
      back : ActionStates, forward : ActionStates, reload : ActionStates,
      viewSource : ActionStates, inspect : ActionStates,
      linkUrl : LinkUrls, selectedText : SelectedTexts ]

\* without a request or without a page nothing else is looked at
MenuInputsMissing ==
    { c \in [ request : BOOLEAN, page : BOOLEAN,
              back : {"enabled"}, forward : {"disabled"}, reload : {"enabled"},
              viewSource : {"enabled"}, inspect : {"enabled"},
              linkUrl : {"http://a"}, selectedText : {""} ] :
        ~(c.request /\ c.page) }

MenuInputs == MenuInputsComplete \cup MenuInputsMissing

Separator == [kind |-> "Separator", data |-> ""]
Entry(kind, data) == [kind |-> kind, data |-> data]

\* action && action->isEnabled(), with the enabled test left out
usable_anyAction(a) == a # "null"

\* action && action->isEnabled()
usable(a) == a = "enabled"

\* QMenu::isEmpty(): no action other than separators
isEmpty(m) == \A i \in DOMAIN m : m[i].kind = "Separator"

\* the test for the first separator, with the standard group left out
separatesStandard_always(hasStandardActions, link, copy) == link \/ copy

\* the test for the separator after the standard actions
separatesStandard(hasStandardActions, link, copy) ==
    hasStandardActions /\ (link \/ copy)

addIf(m, cond, e) == IF cond THEN Append(m, e) ELSE m

\* the menu MyWebView::contextMenuEvent builds from what it finds
buildMenu(c) ==
    LET m1 == addIf(<<>>, usable(c.back), Entry("Back", ""))
        m2 == addIf(m1, usable(c.forward), Entry("Forward", ""))
        m3 == addIf(m2, usable(c.reload), Entry("Reload", ""))
        hasStandardActions == ~isEmpty(m3)
        willHaveCustomLinkAction == c.linkUrl # ""
        willHaveCustomCopyAction == c.selectedText # ""
        m4 == addIf(m3, separatesStandard(hasStandardActions, willHaveCustomLinkAction,
                                          willHaveCustomCopyAction), Separator)
        m5 == addIf(m4, willHaveCustomLinkAction, Entry("OpenLink", c.linkUrl))
        m6 == addIf(m5, willHaveCustomCopyAction, Entry("Copy", c.selectedText))
        m7 == addIf(m6, /\ usable(c.viewSource)
                        /\ ~isEmpty(m6)
                        /\ \/ willHaveCustomLinkAction
                           \/ willHaveCustomCopyAction
                           \/ hasStandardActions,
                    Separator)
        m8 == addIf(m7, usable(c.viewSource), Entry("ViewSource", ""))
        m9 == addIf(m8, /\ usable(c.inspect)
                        /\ ~isEmpty(m8)
                        /\ \/ willHaveCustomLinkAction
                           \/ willHaveCustomCopyAction
                           \/ hasStandardActions
                           \/ usable(c.viewSource),
                    Separator)
    IN  addIf(m9, usable(c.inspect), Entry("InspectElement", ""))

MenuInit == menu = <<>> /\ menuShown = 0 /\ menuDefault = 0 /\ lastMenu = NoCall

\* MyWebView::contextMenuEvent
ContextMenuEvent(c) ==
    /\ menuShown + menuDefault < MaxMenuEvents
    /\ lastMenu' = [op |-> "menu", found |-> c, nShown |-> menuShown,
                    nDefault |-> menuDefault]
    /\ IF ~c.request \/ ~c.page
       THEN /\ menu' = <<>>
            /\ menuDefault' = menuDefault + 1
            /\ menuShown' = menuShown
       ELSE /\ menu' = buildMenu(c)
            /\ IF ~isEmpty(buildMenu(c))
               THEN menuShown' = menuShown + 1 /\ menuDefault' = menuDefault
               ELSE menuShown' = menuShown /\ menuDefault' = menuDefault + 1
    /\ UNCHANGED <<bootVars, bridgeVars, navVars, trayVars>>

MenuStep == \E c \in MenuInputs : ContextMenuEvent(c)

----------------------------------------------------------------------------
(* MainWindow *)

\* QSystemTrayIcon::ActivationReason
ActivationReasons == {"Unknown", "Context", "DoubleClick", "Trigger", "MiddleClick"}

\* Qt::WindowState of the main window
WindowStates == {"normal", "minimized", "maximized", "fullscreen"}

\* the states a top-level window can be in: only a visible window that is not
\* minimized can be the active one
WindowConditions ==
    { w \in [visible : BOOLEAN, state : WindowStates, raised : BOOLEAN,
             active : BOOLEAN] :
        w.active => w.visible /\ w.state # "minimized" }

\* QWidget::showNormal(): the window is shown, neither minimized, maximized nor
\* full-screen
showNormal(w) == [w EXCEPT !.visible = TRUE, !.state = "normal"]

\* QWidget::raise(): the window goes to the top of the stack
raise(w) == [w EXCEPT !.raised = TRUE]

\* QWidget::activateWindow(): a visible window becomes the active one
activateWindow(w) == [w EXCEPT !.active = w.visible]

\* MainWindow::showMainWindow
showMainWindow(w) == activateWindow(raise(showNormal(w)))

\* the test of the activated handler, with the double click left out
showsOnActivation_triggerOnly(reason) == reason = "Trigger"

\* the test of the handler connected to QSystemTrayIcon::activated
showsOnActivation(reason) == reason = "Trigger" \/ reason = "DoubleClick"

\* an event and what it finds
event(op, reason) ==
    [op |-> op, reason |-> reason, window |-> window, quit |-> quitRequested]

\* the main window after MainWindow mainWindow(webView); mainWindow.show()
TrayInit ==
    /\ window = [visible |-> TRUE, state |-> "normal", raised |-> TRUE, active |-> TRUE]
    /\ quitRequested = FALSE
    /\ trayEvents = 0
    /\ lastEvent = NoCall

trayReady == ~quitRequested /\ trayEvents < MaxTrayEvents

\* the tray icon is activated
TrayActivated(reason) ==
    /\ trayReady
    /\ window' = IF showsOnActivation(reason) THEN showMainWindow(window) ELSE window
    /\ trayEvents' = trayEvents + 1
    /\ lastEvent' = event("activated", reason)
    /\ UNCHANGED <<bootVars, bridgeVars, navVars, menuVars, quitRequested>>

\* the Show action of the tray menu is triggered
ShowTriggered ==
    /\ trayReady
    /\ window' = showMainWindow(window)
    /\ trayEvents' = trayEvents + 1
    /\ lastEvent' = event("show", "")
    /\ UNCHANGED <<bootVars, bridgeVars, navVars, menuVars, quitRequested>>

\* the Quit action of the tray menu is triggered: MainWindow::quitApp
QuitTriggered ==
    /\ trayReady
    /\ quitRequested' = TRUE
    /\ trayEvents' = trayEvents + 1
    /\ lastEvent' = event("quit", "")
    /\ UNCHANGED <<bootVars, bridgeVars, navVars, menuVars, window>>

\* the user or the window system minimizes, maximizes, hides, lowers or
\* deactivates the main window
WindowChanged ==
    /\ ~quitRequested
    /\ \E w \in WindowConditions : w # window /\ window' = w
    /\ lastEvent' = event("window", "")
    /\ UNCHANGED <<bootVars, bridgeVars, navVars, menuVars, quitRequested, trayEvents>>

TrayStep ==
    \/ \E reason \in ActivationReasons : TrayActivated(reason)
    \/ ShowTriggered
    \/ QuitTriggered
    \/ WindowChanged

----------------------------------------------------------------------------
(* Specifications *)

vars == <<bootVars, bridgeVars, navVars, menuVars, trayVars>>

NavInit == opened = <<>> /\ delegated = <<>> /\ lastNav = NoCall

\* start-up of the process
InitBoot == BootInit /\ BridgeInit /\ NavInit /\ MenuInit /\ TrayInit
NextBoot == BootStep
SpecBoot == InitBoot /\ [][NextBoot]_vars

\* the bridge object while the event loop runs
InitBridge == BootRunning /\ BridgeInit /\ NavInit /\ MenuInit /\ TrayInit
NextBridge == BridgeStep
SpecBridge == InitBridge /\ [][NextBridge]_vars

\* the web page while the event loop runs
InitNav == BootRunning /\ BridgeInit /\ NavInit /\ MenuInit /\ TrayInit
NextNav == NavStep
SpecNav == InitNav /\ [][NextNav]_vars

\* the web view while the event loop runs
InitMenu == BootRunning /\ BridgeInit /\ NavInit /\ MenuInit /\ TrayInit
NextMenu == MenuStep
SpecMenu == InitMenu /\ [][NextMenu]_vars

\* the main window and its tray icon while the event loop runs
InitTray == BootRunning /\ BridgeInit /\ NavInit /\ MenuInit /\ TrayInit
NextTray == TrayStep
SpecTray == InitTray /\ [][NextTray]_vars

----------------------------------------------------------------------------
(* Properties of the start-up *)

\* the resolution step has run
resolved == \E i \in DOMAIN steps : steps[i] = "resolve"

\* the candidates that exist as directories, by position in the probe order
existing == {i \in DOMAIN Candidates : Candidates[i] \in fs.dirs}

firstExisting == CHOOSE i \in existing : \A j \in existing : i <= j

\* main returned 1 from the resolution step
returnedOne == pc = "done" /\ exitCode = 1 /\ ~windowShown /\ ~loopEntered

\* C1: when --dev-server is set, the resolved URL is the URL built from its value
\* as given (for a well-formed value, its very text), whatever --frontend-path and
\* the filesystem are, and no directory or index.html is looked at; a local-file
\* URL is resolved only when --dev-server is not set.
C1_DevServerFirst ==
    resolved =>
        /\ argv.dev.set =>
              /\ frontendUrl = QUrlFromString(argv.dev.value)
              /\ argv.dev.value \notin MalformedUrls => frontendUrl.text = argv.dev.value
              /\ ~frontendUrl.local
              /\ dirProbes = <<>>
              /\ fileProbes = <<>>
        /\ (frontendUrl.local \/ dirProbes # <<>> \/ fileProbes # <<>>) => ~argv.dev.set

\* --dev-server and --frontend-path both given, index.html present in the given
\* path and in the first candidate: the dev-server URL is the result
C1_Witness ==
    /\ resolved
    /\ argv.dev.set /\ argv.dev.value = "http://localhost:3000"
    /\ argv.fp.set
    /\ indexOf(userPath) \in fs.files
    /\ indexOf(firstCandidate) \in fs.files
    /\ frontendUrl.text = "http://localhost:3000"

\* C2: with neither option set, the directories are tested in the fixed order up
\* to the first existing one and no further; that directory alone decides the
\* result (its index.html as a local-file URL, or failure with exit code 1 when it
\* has none); when no candidate exists all six were tested and resolution fails.
C2_FirstExistingWins ==
    (resolved /\ ~argv.dev.set /\ ~argv.fp.set) =>
        IF existing = {}
        THEN /\ dirProbes = Candidates
             /\ fileProbes = <<>>
             /\ ~frontendUrl.valid
             /\ returnedOne
        ELSE LET dir == Candidates[firstExisting]
             IN  /\ dirProbes = SubSeq(Candidates, 1, firstExisting)
                 /\ fileProbes = <<indexOf(dir)>>
                 /\ IF indexOf(dir) \in fs.files
                    THEN /\ frontendUrl = QUrlFromLocalFile(indexOf(dir))
                         /\ ~returnedOne
                    ELSE /\ ~frontendUrl.valid
                         /\ returnedOne

\* only the third candidate and a later one exist, the third has no index.html,
\* the later one has: resolution fails
C2_Witness ==
    /\ resolved /\ ~argv.dev.set /\ ~argv.fp.set
    /\ existing = {3, 5}
    /\ indexOf(Candidates[3]) \notin fs.files
    /\ indexOf(Candidates[5]) \in fs.files
    /\ dirProbes = SubSeq(Candidates, 1, 3)
    /\ returnedOne

\* C3: with --dev-server unset and --frontend-path given, no directory is tested
\* and only <path>/index.html is looked at: the result is its local-file URL if it
\* exists and failure with exit code 1 otherwise, whatever the candidates hold.
C3_GivenPathUsedDirectly ==
    (resolved /\ ~argv.dev.set /\ argv.fp.set) =>
        /\ dirProbes = <<>>
        /\ fileProbes = <<indexOf(argv.fp.value)>>
        /\ IF indexOf(argv.fp.value) \in fs.files
           THEN /\ frontendUrl = QUrlFromLocalFile(indexOf(argv.fp.value))
                /\ ~returnedOne
           ELSE /\ ~frontendUrl.valid
                /\ returnedOne

\* the given path does not exist while the first candidate holds an index.html:
\* resolution fails
C3_Witness ==
    /\ resolved /\ ~argv.dev.set /\ argv.fp.set
    /\ argv.fp.value \notin fs.dirs
    /\ indexOf(firstCandidate) \in fs.files
    /\ returnedOne

\* resolution failed as the interface describes it: no dev server was given and
\* no index.html was found
noFrontend == ~argv.dev.set /\ ~frontendUrl.valid

\* C4: main returns 1 without showing the window or entering the event loop
\* exactly when no dev server was given and no index.html was found; in every
\* other case the window is shown and the event loop entered.
C4_ExitOneIffNoFrontend ==
    pc = "done" =>
        /\ returnedOne <=> noFrontend
        /\ ~noFrontend => windowShown /\ loopEntered

\* C10: when main has returned, a log file opened at start-up has been closed and
\* released.
C10_LogReleasedOnReturn == pc = "done" => logFile # "open"

\* step a was performed before every performance of step b
before(a, b) ==
    \A j \in DOMAIN steps : steps[j] = b => \E i \in 1..(j - 1) : steps[i] = a

\* C13 as stated: the steps occur in the order parse, resolve, bridge, window,
\* event loop; the frontend URL is resolved before the bridge is constructed.
C13_ResolveBeforeBridge ==
    /\ before("parse", "resolve")
    /\ before("resolve", "bridge")
    /\ before("bridge", "window")
    /\ before("window", "exec")

\* C13, amended: the steps occur in the order parse, bridge (constructed and
\* registered), resolve, show the main window, event loop: the bridge is
\* constructed before the frontend URL is resolved. The main window is constructed
\* before it is shown: after the resolution in app/main.cpp, before the bridge in
\* the legacy main.cpp.
C13_BridgeBeforeResolve ==
    /\ before("parse", "bridge")
    /\ before("bridge", "resolve")
    /\ before("resolve", "show")
    /\ before("show", "exec")
    /\ before("window", "show")
    /\ variant = "app" => before("resolve", "window")
    /\ variant = "legacy" => before("parse", "window") /\ before("window", "bridge")

\* a complete run of the legacy entry point: the event loop was entered and ended
C13_Witness ==
    /\ variant = "legacy"
    /\ pc = "done" /\ loopEntered
    /\ \E i, j \in DOMAIN steps : i < j /\ steps[i] = "bridge" /\ steps[j] = "resolve"

----------------------------------------------------------------------------
(* Properties of the navigation policy *)

interceptable(r) ==
    r.isMainFrame /\ r.type = "LinkClicked" /\ r.url.scheme \in {"http", "https"}

\* C5: a request is intercepted (its URL handed to the OS handler once, FALSE
\* returned, nothing delegated) exactly when it is a link click on the main frame
\* to an http or https URL; every other request opens nothing and is delegated
\* unchanged to the base class, whose answer is returned.
C5_InterceptIffMainFrameLinkClickWeb ==
    /\ \A i \in DOMAIN opened : opened[i].scheme \in {"http", "https"}
    /\ \A i \in DOMAIN delegated : ~interceptable(delegated[i])
    /\ lastNav.op = "nav" =>
          IF interceptable(lastNav)
          THEN /\ lastNav.result = FALSE
               /\ opened = SubSeq(opened, 1, lastNav.nOpened) \o <<lastNav.url>>
               /\ Len(opened) = lastNav.nOpened + 1
               /\ Len(delegated) = lastNav.nDelegated
          ELSE /\ Len(opened) = lastNav.nOpened
               /\ Len(delegated) = lastNav.nDelegated + 1
               /\ delegated[Len(delegated)] =
                      [url |-> lastNav.url, type |-> lastNav.type,
                       isMainFrame |-> lastNav.isMainFrame]
               /\ lastNav.result =
                      baseAcceptNavigationRequest(lastNav.url, lastNav.type,
                                                  lastNav.isMainFrame)

\* an https link click on the main frame was opened externally, after a link
\* click to a file URL was delegated
C5_Witness ==
    /\ lastNav.op = "nav" /\ interceptable(lastNav)
    /\ lastNav.url.scheme = "https"
    /\ Len(opened) = 1 /\ Len(delegated) = 1
    /\ delegated[1].url.scheme = "file" /\ delegated[1].type = "LinkClicked"
    /\ delegated[1].isMainFrame

----------------------------------------------------------------------------
(* Properties of the bridge object *)

\* C6: a changed signal is emitted exactly when the field changes value, and
\* carries the new value: the numbers of countChanged and messageChanged signals
\* equal the numbers of value changes, a call that leaves a field's value alone
\* emits nothing for it, and the last signal carries the current value.
C6_NotifyIffChanged ==
    /\ Len(countChanged) = history.countChanges
    /\ Len(messageChanged) = history.messageChanges
    /\ countChanged # <<>> => countChanged[Len(countChanged)] = m_count
    /\ countChanged = <<>> => m_count = 0
    /\ messageChanged # <<>> => messageChanged[Len(messageChanged)] = m_message
    /\ messageChanged = <<>> => m_message = "Hello from C++ backend!"
    /\ lastCall.op # "none" =>
          /\ Len(countChanged) =
                lastCall.nCount + (IF m_count # lastCall.count THEN 1 ELSE 0)
          /\ Len(messageChanged) =
                lastCall.nMessage + (IF m_message # lastCall.message THEN 1 ELSE 0)
    /\ (lastCall.op = "setCount" /\ lastCall.arg = lastCall.count) =>
          m_count = lastCall.count /\ Len(countChanged) = lastCall.nCount
    /\ (lastCall.op = "setMessage" /\ lastCall.arg = lastCall.message) =>
          m_message = lastCall.message /\ Len(messageChanged) = lastCall.nMessage

\* setCount(5) called twice in a row: one countChanged
C6_Witness ==
    /\ lastCall.op = "setCount" /\ lastCall.arg = 5 /\ lastCall.count = 5
    /\ countChanged = <<5>>
    /\ history.calls = 2

\* C7: after incrementCount on count n, for every int n, the count is n + 1 and
\* exactly one countChanged carrying n + 1 was emitted; the call does not fail.
\* (No value of the field equals INT_MAX + 1.)
C7_IncrementAddsOne ==
    lastCall.op = "incrementCount" =>
        /\ ~trapped
        /\ lastCall.count < INT_MAX
        /\ m_count = lastCall.count + 1
        /\ Len(countChanged) = lastCall.nCount + 1
        /\ countChanged[Len(countChanged)] = lastCall.count + 1

\* C8: the count is never negative.
C8_CountNonNegative == m_count >= 0

\* C9: sendToBackend changes neither field and emits no changed signal; every
\* call appends one sendToFrontend carrying "Backend received: " and its text, so
\* the signals emitted are those of the calls made, in call order; no other call
\* emits sendToFrontend.
C9_SendToBackendEchoes ==
    /\ Len(sendToFrontend) = Len(history.sent)
    /\ \A i \in DOMAIN sendToFrontend :
          sendToFrontend[i] = "Backend received: " \o history.sent[i]
    /\ lastCall.op = "sendToBackend" =>
          /\ m_message = lastCall.message
          /\ m_count = lastCall.count
          /\ Len(messageChanged) = lastCall.nMessage
          /\ Len(countChanged) = lastCall.nCount
          /\ Len(sendToFrontend) = lastCall.nSent + 1
          /\ sendToFrontend[Len(sendToFrontend)] = "Backend received: " \o lastCall.arg
    /\ lastCall.op \in {"setMessage", "setCount", "incrementCount"} =>
          Len(sendToFrontend) = lastCall.nSent

\* two calls, the second with a text that is itself a place marker
C9_Witness ==
    /\ lastCall.op = "sendToBackend"
    /\ sendToFrontend = <<"Backend received: ping", "Backend received: %1">>
    /\ m_count = 0

----------------------------------------------------------------------------
(* Properties of the context menu *)

notSeparator(e) == e.kind # "Separator"

optional(cond, e) == IF cond THEN <<e>> ELSE <<>>

\* the entries the capabilities call for, in the fixed order
expectedEntries(c) ==
    optional(c.back = "enabled", Entry("Back", ""))
    \o optional(c.forward = "enabled", Entry("Forward", ""))
    \o optional(c.reload = "enabled", Entry("Reload", ""))
    \o optional(c.linkUrl # "", Entry("OpenLink", c.linkUrl))
    \o optional(c.selectedText # "", Entry("Copy", c.selectedText))
    \o optional(c.viewSource = "enabled", Entry("ViewSource", ""))
    \o optional(c.inspect = "enabled", Entry("InspectElement", ""))

\* a context-menu event that found a request and a page
menuBuilt == lastMenu.op = "menu" /\ lastMenu.found.request /\ lastMenu.found.page

\* C11: the entries of the menu other than separators are exactly those whose
\* capability holds, in the order Back, Forward, Reload, Open Link in External
\* Browser, Copy, View Source, Inspect Element; the menu is shown if there is
\* such an entry and the default handler is called instead if there is none.
C11_EntriesAreTheEnabledOnes ==
    menuBuilt =>
        LET expected == expectedEntries(lastMenu.found)
        IN  /\ SelectSeq(menu, notSeparator) = expected
            /\ menuShown = lastMenu.nShown + (IF expected # <<>> THEN 1 ELSE 0)
            /\ menuDefault = lastMenu.nDefault + (IF expected = <<>> THEN 1 ELSE 0)

\* every capability holds: seven entries, and the menu is shown
C11_Witness ==
    /\ menuBuilt
    /\ Len(SelectSeq(menu, notSeparator)) = 7
    /\ menuShown = 1 /\ menuDefault = 0

\* the group of an entry
groupOf(e) ==
    IF e.kind \in {"Back", "Forward", "Reload"} THEN "standard"
    ELSE IF e.kind \in {"OpenLink", "Copy"} THEN "custom"
    ELSE e.kind

\* C12: a separator stands only between entries of two different groups: the menu
\* neither begins nor ends with one and has no two in a row; the first of the
\* link and copy entries is preceded by a separator exactly when one of Back,
\* Forward, Reload is in the menu, and is the first entry otherwise.
C12_SeparatorsOnlyBetweenGroups ==
    menuBuilt =>
        /\ \A i \in DOMAIN menu :
              menu[i].kind = "Separator" =>
                  /\ 1 < i /\ i < Len(menu)
                  /\ notSeparator(menu[i - 1]) /\ notSeparator(menu[i + 1])
                  /\ groupOf(menu[i - 1]) # groupOf(menu[i + 1])
        /\ \A i \in DOMAIN menu :
              (/\ groupOf(menu[i]) = "custom"
               /\ \A j \in 1..(i - 1) : groupOf(menu[j]) # "custom") =>
                  LET hasStandard == \E j \in DOMAIN menu : groupOf(menu[j]) = "standard"
                  IN  IF hasStandard
                      THEN /\ menu[i - 1].kind = "Separator"
                           /\ groupOf(menu[i - 2]) = "standard"
                      ELSE i = 1
        /\ (lastMenu.found.linkUrl = "" /\ lastMenu.found.selectedText = "") =>
              \A i \in DOMAIN menu : groupOf(menu[i]) # "custom"

\* Back, a link and Inspect Element: two separators, each between two groups
C12_Witness ==
    /\ menuBuilt
    /\ menu = <<Entry("Back", ""), Separator, Entry("OpenLink", "http://a"),
                Separator, Entry("InspectElement", "")>>

----------------------------------------------------------------------------
(* Properties of the tray icon *)

shown == [visible |-> TRUE, state |-> "normal", raised |-> TRUE, active |-> TRUE]

\* C14: a Trigger or DoubleClick activation and the Show action leave the main
\* window visible, in normal state, raised and active, whatever it was before, and
\* request no termination; an activation for another reason changes nothing; the
\* Quit action requests termination and leaves the window alone; termination is
\* requested by nothing but the Quit action.
C14_TrayShowsAndQuits ==
    /\ (\/ lastEvent.op = "show"
        \/ lastEvent.op = "activated" /\ lastEvent.reason \in {"Trigger", "DoubleClick"})
          => window = shown /\ ~quitRequested
    /\ (lastEvent.op = "activated" /\ lastEvent.reason \notin {"Trigger", "DoubleClick"})
          => window = lastEvent.window /\ ~quitRequested
    /\ lastEvent.op = "quit" => quitRequested /\ window = lastEvent.window
    /\ quitRequested => lastEvent.op = "quit"

\* a double click on the tray icon found the window hidden and minimized
C14_Witness ==
    /\ lastEvent.op = "activated" /\ lastEvent.reason = "DoubleClick"
    /\ ~lastEvent.window.visible /\ lastEvent.window.state = "minimized"
    /\ window = shown

====
